---- MODULE Spec2Model ----
(***************************************************************************)
(* A model of parser.py: the seatmap XML to JSON converter.                *)
(*                                                                         *)
(* Python values are modelled as follows.                                  *)
(*   str      a TLA+ string (characters are read with SubSeq)              *)
(*   None     the string None, which no text of a modelled document equals *)
(*   Element  a record [tag, attrib, text, children]; an absent element    *)
(*            (the None that find() returns) is NoneEl                     *)
(*   float    a decimal [n, d] standing for n / 10^d                       *)
(*   a call   an outcome [exc, val]: exc = "" and the value returned, or   *)
(*            the name of the exception raised                             *)
(*   dict     the sequence of its [k, v] items in insertion order          *)
(***************************************************************************)
EXTENDS Integers, Sequences, FiniteSets, TLC

VARIABLES
  argv,        \* sys.argv[1:] of the run: <<>> or <<path>>
  fs,          \* what ET.parse finds at the path: [kind, root]
  pc,          \* position of the __main__ block
  tree,        \* the module-level name tree, as the root Element of the parsed file
  root,        \* the module-level name root (Undefined until line 264 binds it)
  parser,      \* the module-level name parser: the instance built at 267 / 269
  data,        \* the module-level name data: what parser.parse() returned
  stdout,      \* lines printed
  exitStatus,  \* <<>> while the process runs, then << its exit status >>
  outFile,     \* the output file: <<>> while absent, then << [name, content] >>
  insts,       \* parser instances a host constructs directly (library use)
  results,     \* what each of those instances' parse() call produced
  fpIn,        \* arguments of a _format_price call
  fpOut        \* its return value

vars == <<argv, fs, pc, tree, root, parser, data, stdout, exitStatus, outFile,
          insts, results, fpIn, fpOut>>

mainVars == <<argv, fs, pc, tree, root, parser, data, stdout, exitStatus, outFile>>
libVars == <<insts, results>>
fpVars == <<fpIn, fpOut>>

None == "<None>"
Undefined == "<undefined>"

Max(S) == CHOOSE x \in S : \A y \in S : y <= x
Min(S) == CHOOSE x \in S : \A y \in S : x <= y

----------------------------------------------------------------------------
(* Outcomes of calls *)

Ok(v) == [exc |-> "", val |-> v]
Raise(e) == [exc |-> e, val |-> None]

\* the statements F that follow a call: they run on its value unless it raised
Try(out, F(_)) == IF out.exc # "" THEN out ELSE F(out.val)

\* v bound to a name for the statements F
Let(v, F(_)) == F(v)

AnyExc(outs) == \E i \in 1..Len(outs) : outs[i].exc # ""

\* the exception of the first call of the sequence that raised
FirstExc(outs) ==
  Raise(outs[Min({ k \in 1..Len(outs) : outs[k].exc # "" })].exc)

Vals(outs) == [i \in 1..Len(outs) |-> outs[i].val]

\* a list comprehension whose element calls may raise, then the statements F
TryAll(outs, F(_)) == IF AnyExc(outs) THEN FirstExc(outs) ELSE F(Vals(outs))

----------------------------------------------------------------------------
(* Strings *)

Char(s, i) == SubSeq(s, i, i)

Whitespace == {" ", "\t", "\n"}

RECURSIVE LStrip(_)
LStrip(s) ==
  IF Len(s) > 0 /\ Char(s, 1) \in Whitespace THEN LStrip(SubSeq(s, 2, Len(s))) ELSE s

RECURSIVE RStrip(_)
RStrip(s) ==
  IF Len(s) > 0 /\ Char(s, Len(s)) \in Whitespace
  THEN RStrip(SubSeq(s, 1, Len(s) - 1)) ELSE s

\* str.strip()
Strip(s) == LStrip(RStrip(s))

\* sub in s
Contains(s, sub) ==
  \E i \in 1..(Len(s) - Len(sub) + 1) : SubSeq(s, i, i + Len(sub) - 1) = sub

\* positions of character c in s
Positions(s, c) == { i \in 1..Len(s) : Char(s, i) = c }

\* '{}'.format(x) of a str or None
Str(x) == IF x = None THEN "None" ELSE x

\* truth value of a str or None
FalsyStr(x) == x = None \/ x = ""

Digits == "0123456789"
DigitChar(k) == Char(Digits, k + 1)
IsDigit(c) == \E k \in 0..9 : DigitChar(k) = c
DigitVal(c) == CHOOSE k \in 0..9 : DigitChar(k) = c
AllDigits(s) == Len(s) > 0 /\ \A i \in 1..Len(s) : IsDigit(Char(s, i))

RECURSIVE Pow10(_)
Pow10(k) == IF k = 0 THEN 1 ELSE 10 * Pow10(k - 1)

RECURSIVE StrToNat(_)
StrToNat(s) ==
  IF Len(s) = 0 THEN 0
  ELSE 10 * StrToNat(SubSeq(s, 1, Len(s) - 1)) + DigitVal(Char(s, Len(s)))

RECURSIVE NatToStr(_)
NatToStr(n) ==
  IF n < 10 THEN DigitChar(n) ELSE NatToStr(n \div 10) \o DigitChar(n % 10)

\* n written with at least w digits, zero-padded on the left
RECURSIVE ZeroPad(_, _)
ZeroPad(s, w) == IF Len(s) >= w THEN s ELSE ZeroPad("0" \o s, w)

----------------------------------------------------------------------------
(* Numbers: int(), float(), /, sum(), and the format specification ' .Nf' *)

Dec(n, d) == [n |-> n, d |-> d]

\* int(x): a decimal integer literal; None is a TypeError, other text a ValueError
Int_(x) ==
  IF x = None THEN Raise("TypeError")
  ELSE IF AllDigits(x) THEN Ok(StrToNat(x))
  ELSE Raise("ValueError")

\* float(x) for x = ip "." fp
FloatOfParts(ip, fp) ==
  IF Len(ip \o fp) > 0 /\ \A i \in 1..Len(ip \o fp) : IsDigit(Char(ip \o fp, i))
  THEN Ok(Dec(StrToNat(ip \o fp), Len(fp)))
  ELSE Raise("ValueError")

\* float(x): digits with an optional fraction part
Float_(x) ==
  IF x = None THEN Raise("TypeError")
  ELSE Let(Positions(x, "."), LAMBDA dots :
    IF dots = {} THEN
      IF AllDigits(x) THEN Ok(Dec(StrToNat(x), 0)) ELSE Raise("ValueError")
    ELSE IF Cardinality(dots) > 1 THEN Raise("ValueError")
    ELSE FloatOfParts(SubSeq(x, 1, Min(dots) - 1), SubSeq(x, Min(dots) + 1, Len(x))))

\* amount / (10**precision)
DivPow10(a, precision) == Dec(a.n, a.d + precision)

\* a + b
DecAdd(a, b) ==
  IF a.d > b.d THEN Dec(a.n + b.n * Pow10(a.d - b.d), a.d)
  ELSE Dec(a.n * Pow10(b.d - a.d) + b.n, b.d)

\* sum(xs), which starts from the int 0
RECURSIVE DecSum(_)
DecSum(xs) ==
  IF Len(xs) = 0 THEN Dec(0, 0)
  ELSE DecAdd(DecSum(SubSeq(xs, 1, Len(xs) - 1)), xs[Len(xs)])

\* n / m rounded to the nearest integer, an exact tie to the even neighbour
RoundHalfEven(n, m) ==
  IF 2 * (n % m) < m THEN n \div m
  ELSE IF 2 * (n % m) > m THEN (n \div m) + 1
  ELSE IF (n \div m) % 2 = 0 THEN n \div m ELSE (n \div m) + 1

\* the digits of scaled / 10^precision with precision digits after the point
FixedDigits(scaled, unit, precision) ==
  NatToStr(scaled \div unit)
    \o (IF precision > 0 THEN "." \o ZeroPad(NatToStr(scaled % unit), precision) ELSE "")

\* format(a, ' .{precision}f') for a >= 0: the sign slot holds a space
FormatFixed(a, precision) ==
  " " \o FixedDigits(IF a.d <= precision THEN a.n * Pow10(precision - a.d)
                     ELSE RoundHalfEven(a.n, Pow10(a.d - precision)),
                     Pow10(precision), precision)

DefaultCurrency == ""
DefaultPrecision == 2

\* _format_price with the strip() of line 83 left out
FormatPriceNoStrip(amount, currency, precision) ==
  IF amount.n > 0
  THEN FormatFixed(amount, precision) \o " " \o Str(currency)
  ELSE "N/A"

\* ParserXML._format_price(amount, currency, precision)
_format_price(amount, currency, precision) ==
  IF amount.n > 0
  THEN Strip(FormatFixed(amount, precision) \o " " \o Str(currency))
  ELSE "N/A"

\* self._format_price(0): currency and precision take their defaults
FormatPriceZero == _format_price(Dec(0, 0), DefaultCurrency, DefaultPrecision)

----------------------------------------------------------------------------
(* xml.etree.ElementTree *)

NoAttrib == <<>>

El(tag, attrib, text, children) ==
  [tag |-> tag, attrib |-> attrib, text |-> text, children |-> children]

\* the None that find() returns, and that _iter takes as its default root
NoneEl == El(None, NoAttrib, None, <<>>)

\* a module-level name that no statement has bound yet
Unbound == El(Undefined, NoAttrib, None, <<>>)

\* Element.get(key)
Get(el, key) == IF key \in DOMAIN el.attrib THEN el.attrib[key] ELSE None

\* truth value of an Element or None: an Element with no children is false
Falsy(el) == el = NoneEl \/ Len(el.children) = 0

RECURSIVE Flatten(_)
Flatten(ss) == IF Len(ss) = 0 THEN <<>> ELSE Head(ss) \o Flatten(Tail(ss))

\* list(Element.iter(tag)): el and its descendants with that tag, in document order
RECURSIVE ElementIter(_, _)
ElementIter(el, tag) ==
  (IF el.tag = tag THEN <<el>> ELSE <<>>)
    \o Flatten([i \in 1..Len(el.children) |-> ElementIter(el.children[i], tag)])

\* Element.find(tag): the first child with that tag, or None
ElementFind(el, tag) ==
  Let({ i \in 1..Len(el.children) : el.children[i].tag = tag }, LAMBDA hits :
    IF hits = {} THEN NoneEl ELSE el.children[Min(hits)])

----------------------------------------------------------------------------
(* dict: insertion-ordered pairs with distinct keys *)

DictKeys(d) == { d[i].k : i \in 1..Len(d) }

DictIndex(d, key) == CHOOSE i \in 1..Len(d) : d[i].k = key

\* d[key], for a key of d
DictAt(d, key) == d[DictIndex(d, key)].v

\* d[key] = v
DictSet(d, key, v) ==
  IF key \in DictKeys(d)
  THEN [d EXCEPT ![DictIndex(d, key)] = [k |-> key, v |-> v]]
  ELSE Append(d, [k |-> key, v |-> v])

\* { p.k: p.v for p in pairs }
RECURSIVE DictOf(_)
DictOf(pairs) ==
  IF Len(pairs) = 0 THEN <<>>
  ELSE DictSet(DictOf(SubSeq(pairs, 1, Len(pairs) - 1)),
               pairs[Len(pairs)].k, pairs[Len(pairs)].v)

\* list(d.values())
DictValues(d) == [i \in 1..Len(d) |-> d[i].v]

----------------------------------------------------------------------------
(* class ParserXML *)

\* ParserXML.__init__(root)
ParserXML_init(cls, r) == [cls |-> cls, root |-> r, ns |-> ""]

\* an instance that no statement has constructed yet
NoParser == [cls |-> None, root |-> NoneEl, ns |-> ""]

\* ParserXML._get_namespace(element): the greedy match of \{.*\} at the start of the tag
_get_namespace(element) ==
  Let(Positions(element.tag, "}"), LAMBDA closes :
    IF Len(element.tag) > 0 /\ Char(element.tag, 1) = "{" /\ closes # {}
    THEN SubSeq(element.tag, 1, Max(closes))
    ELSE "")

\* ParserXML._iter(tag, root)
_iter(self, tag, r) ==
  ElementIter(IF Falsy(r) THEN self.root ELSE r, self.ns \o tag)

\* ParserXML._find(el, tag): el.find raises AttributeError when el is None
_find(self, el, tag) ==
  IF el = NoneEl THEN Raise("AttributeError") ELSE Ok(ElementFind(el, self.ns \o tag))

TimeChars == 5

\* ParserXML._format_flight(id, date, time, rows)
_format_flight(id, date, time, rows) ==
  [flight_id |-> id, date |-> date,
   time |-> SubSeq(time, 1, IF Len(time) < TimeChars THEN Len(time) ELSE TimeChars),
   rows |-> rows]

\* ParserXML._format_row(id, cabin_class, seats)
_format_row(id, cabin_class, seats) ==
  [row_id |-> id, cabin_class |-> cabin_class, seats |-> seats]

\* ParserXML._format_seat(id, seat_type, available, price, taxes)
_format_seat(id, seat_type, available, price, taxes) ==
  [seat_id |-> id, type |-> seat_type, available |-> available,
   price |-> price, taxes |-> taxes]

----------------------------------------------------------------------------
(* class SoapParser *)

\* line 136, with every value but "false" taken for true
SoapAvailableLoose(summary) == Get(summary, "AvailableInd") # "false"

\* line 136: summary.get('AvailableInd') == 'true'
SoapAvailable(summary) == Get(summary, "AvailableInd") = "true"

\* lines 138-143: one entry per Features element, the extension attribute or else the text
SoapSeatType(features) ==
  [i \in 1..Len(features) |->
     IF FalsyStr(Get(features[i], "extension")) THEN features[i].text
     ELSE Get(features[i], "extension")]

\* el.get(key): None has no attribute get
GetOf(el, key) == IF el = NoneEl THEN Raise("AttributeError") ELSE Ok(Get(el, key))

\* lines 147-154: the fee and tax prices of an available seat
SoapFeeAndTaxes(self, seat) ==
  Try(_find(self, seat, "Service"), LAMBDA service :
  Try(_find(self, service, "Fee"), LAMBDA fee :
  Try(GetOf(fee, "Amount"), LAMBDA amountText :
  Try(Float_(amountText), LAMBDA amount :
  Try(Int_(Get(fee, "DecimalPlaces")), LAMBDA precision :
  Let(Get(fee, "CurrencyCode"), LAMBDA currency :
  Let(_iter(self, "Tax", fee), LAMBDA taxEls :
  TryAll([i \in 1..Len(taxEls) |-> Float_(Get(taxEls[i], "Amount"))], LAMBDA taxAmounts :
    Ok([seat_price |->
          _format_price(DivPow10(amount, precision), currency, precision),
        taxes |->
          _format_price(DivPow10(DecSum(taxAmounts), precision),
                        currency, precision)])))))))))

\* SoapParser.__soap_seat_info(seat)
__soap_seat_info(self, seat) ==
  Try(_find(self, seat, "Summary"), LAMBDA summary :
  Try(GetOf(summary, "SeatNumber"), LAMBDA seat_id :
  Let(SoapAvailable(summary), LAMBDA available :
  Let(SoapSeatType(_iter(self, "Features", seat)), LAMBDA seat_type :
    IF available
    THEN Try(SoapFeeAndTaxes(self, seat), LAMBDA prices :
           Ok(_format_seat(seat_id, seat_type, available,
                           prices.seat_price, prices.taxes)))
    ELSE Ok(_format_seat(seat_id, seat_type, available,
                         FormatPriceZero, FormatPriceZero))))))

\* SoapParser.__soap_row_info(row)
__soap_row_info(self, row) ==
  Let(_iter(self, "SeatInfo", row), LAMBDA seatEls :
  TryAll([i \in 1..Len(seatEls) |-> __soap_seat_info(self, seatEls[i])], LAMBDA seats :
    Ok(_format_row(Get(row, "RowNumber"), Get(row, "CabinType"), seats))))

\* [flight_date, flight_time] = flight_departure.split('T')
SplitDeparture(flight_departure) ==
  IF flight_departure = None THEN Raise("AttributeError")
  ELSE Let(Positions(flight_departure, "T"), LAMBDA ts :
    IF Cardinality(ts) # 1 THEN Raise("ValueError")
    ELSE Ok([flight_date |-> SubSeq(flight_departure, 1, Min(ts) - 1),
             flight_time |-> SubSeq(flight_departure, Min(ts) + 1,
                                    Len(flight_departure))]))

\* lines 105-115: the body of the loop over the seatmap responses, as the
\* pair (flight_id, flight record) that line 115 stores
SoapResponse(self, response) ==
  Try(_find(self, response, "FlightSegmentInfo"), LAMBDA flight :
  Try(GetOf(flight, "FlightNumber"), LAMBDA flight_id :
  Try(SplitDeparture(Get(flight, "DepartureDateTime")), LAMBDA departure :
  Try(_find(self, response, "SeatMapDetails"), LAMBDA seatmap :
  Let(_iter(self, "RowInfo", seatmap), LAMBDA rowEls :
  TryAll([i \in 1..Len(rowEls) |-> __soap_row_info(self, rowEls[i])], LAMBDA rows :
    Ok([k |-> flight_id,
        v |-> _format_flight(flight_id, departure.flight_date,
                             departure.flight_time, rows)])))))))

\* line 98: body = root[0][0], root being the module-level name
SoapBody(self, groot) ==
  IF groot = Unbound THEN Raise("NameError")
  ELSE IF Len(groot.children) = 0 \/ Len(groot.children[1].children) = 0
  THEN Raise("IndexError")
  ELSE Ok(groot.children[1].children[1])

\* line 100: the namespace SoapParser.parse leaves in self.ns
SoapNs(self, groot) ==
  Let(SoapBody(self, groot), LAMBDA body :
    IF body.exc # "" THEN self.ns ELSE _get_namespace(body.val))

\* lines 103-117: the loop over the seatmap responses and the result
SoapResponses(self, body) ==
  Let(_iter(self, "SeatMapResponse", body), LAMBDA responses :
  TryAll([i \in 1..Len(responses) |-> SoapResponse(self, responses[i])], LAMBDA flights :
    Ok(DictOf(flights))))

\* SoapParser.parse(), groot being the value of the module-level name root
SoapParser_parse(self, groot) ==
  Try(SoapBody(self, groot), LAMBDA body :
    SoapResponses([self EXCEPT !.ns = _get_namespace(body)], body))

----------------------------------------------------------------------------
(* class IataParser *)

\* el.text: None has no attribute text
TextOf(el) == IF el = NoneEl THEN Raise("AttributeError") ELSE Ok(el.text)

\* self._find(self._find(el, outer), inner).text
FindText2(self, el, outer, inner) ==
  Try(_find(self, el, outer), LAMBDA e1 :
  Try(_find(self, e1, inner), LAMBDA e2 : TextOf(e2)))

\* time[:5] inside _format_flight: None is not subscriptable
Subscriptable(time) == IF time = None THEN Raise("TypeError") ELSE Ok(time)

\* IataParser.__iata_flight_info(flight)
__iata_flight_info(self, flight) ==
  Try(FindText2(self, flight, "Departure", "Date"), LAMBDA flight_date :
  Try(FindText2(self, flight, "Departure", "Time"), LAMBDA flight_time :
  Try(FindText2(self, flight, "MarketingCarrier", "FlightNumber"), LAMBDA flight_id :
  Try(Subscriptable(flight_time), LAMBDA time :
    Ok(_format_flight(flight_id, flight_date, time, <<>>))))))

\* IataParser.__iata_offer_info(offer)
__iata_offer_info(self, offer) ==
  Try(_find(self, offer, "UnitPriceDetail"), LAMBDA detail :
  Try(_find(self, detail, "TotalAmount"), LAMBDA total_amount_el :
  Try(_find(self, total_amount_el, "SimpleCurrencyPrice"), LAMBDA price_el :
  Try(TextOf(price_el), LAMBDA text :
  Try(Float_(text), LAMBDA amount :
    Ok(_format_price(amount, Get(price_el, "Code"), DefaultPrecision)))))))

\* line 173: the description text of a seat definition
IataSeatDefinition(self, seat_def) == FindText2(self, seat_def, "Description", "Text")

AvailableKey == "SD4"

\* dict.get(key)
DictGet(d, key) == IF key \in DictKeys(d) THEN DictAt(d, key) ELSE None

\* lines 225-229 with the SD4 reference appended to the type list like any other
IataSeatRefKeepSD4(self, before, key) ==
  [available |-> before.available \/ key = AvailableKey,
   seat_type |-> Append(before.seat_type, DictGet(self.seat_definitions, key))]

\* lines 225-229: one SeatDefinitionRef, after the ones before it
IataSeatRef(self, before, key) ==
  IF key = AvailableKey
  THEN [before EXCEPT !.available = TRUE]
  ELSE [before EXCEPT !.seat_type = Append(@, DictGet(self.seat_definitions, key))]

\* lines 220-229: the loop over the seat's SeatDefinitionRef elements
RECURSIVE IataSeatRefs(_, _)
IataSeatRefs(self, refs) ==
  IF Len(refs) = 0 THEN [available |-> FALSE, seat_type |-> <<>>]
  ELSE IataSeatRef(self, IataSeatRefs(self, SubSeq(refs, 1, Len(refs) - 1)),
                   refs[Len(refs)].text)

\* lines 232-237: the price of an available seat
IataSeatPrice(self, seat) ==
  Try(_find(self, seat, "OfferItemRefs"), LAMBDA offer_ref :
    IF offer_ref = NoneEl THEN Ok(FormatPriceZero)
    ELSE IF offer_ref.text \in DictKeys(self.offers)
    THEN Ok(DictAt(self.offers, offer_ref.text))
    ELSE Raise("KeyError"))

\* row_number + col
Concat(a, b) == IF a = None \/ b = None THEN Raise("TypeError") ELSE Ok(a \o b)

\* IataParser.__iata_seat_info(seat, row_number)
__iata_seat_info(self, seat, row_number) ==
  Try(_find(self, seat, "Column"), LAMBDA column :
  Try(TextOf(column), LAMBDA col :
  Try(Concat(row_number, col), LAMBDA seat_id :
  Let(IataSeatRefs(self, _iter(self, "SeatDefinitionRef", seat)), LAMBDA refs :
  Try(IF refs.available THEN IataSeatPrice(self, seat) ELSE Ok(FormatPriceZero),
      LAMBDA price :
    Ok(_format_seat(seat_id, refs.seat_type, refs.available,
                    price, FormatPriceZero)))))))

\* IataParser.__iata_row_info(row)
__iata_row_info(self, row) ==
  Try(_find(self, row, "Number"), LAMBDA number :
  Try(TextOf(number), LAMBDA row_number :
  Let(_iter(self, "Seat", row), LAMBDA seatEls :
  TryAll([i \in 1..Len(seatEls) |-> __iata_seat_info(self, seatEls[i], row_number)],
         LAMBDA seats :
    Ok(_format_row(row_number, "Common", seats))))))

\* line 179: the Row elements whose records the seatmap section appends
IataSeatMapRows(self, seat_map) == _iter(self, "Row", NoneEl)

\* line 178-179: flight = self.flights.get(seg_ref); flight['rows'] += ...
IataAppendRows(self, flights, seg_ref, seat_map) ==
  IF seg_ref \notin DictKeys(flights) THEN Raise("TypeError")
  ELSE Let(IataSeatMapRows(self, seat_map), LAMBDA rowEls :
       TryAll([i \in 1..Len(rowEls) |-> __iata_row_info(self, rowEls[i])], LAMBDA rows :
         Ok(DictSet(flights, seg_ref,
                    [DictAt(flights, seg_ref) EXCEPT !.rows = @ \o rows]))))

\* lines 176-179: the loop over the seatmap sections, updating self.flights
RECURSIVE IataSeatMaps(_, _, _)
IataSeatMaps(self, flights, seatMaps) ==
  IF Len(seatMaps) = 0 THEN Ok(flights)
  ELSE Try(_find(self, Head(seatMaps), "SegmentRef"), LAMBDA ref :
       Try(TextOf(ref), LAMBDA seg_ref :
       Try(IataAppendRows(self, flights, seg_ref, Head(seatMaps)), LAMBDA updated :
         IataSeatMaps(self, updated, Tail(seatMaps)))))

\* { el.get(keyAttr): vals[i] for the i-th el of els }
Catalog(els, keyAttr, vals) ==
  DictOf([i \in 1..Len(els) |-> [k |-> Get(els[i], keyAttr), v |-> vals[i]]])

\* lines 169-173: the three catalogs, as the instance holding them
IataCatalogs(self) ==
  Let(_iter(self, "FlightSegment", NoneEl), LAMBDA flightEls :
  TryAll([i \in 1..Len(flightEls) |-> __iata_flight_info(self, flightEls[i])],
         LAMBDA flights :
  Let(_iter(self, "ALaCarteOfferItem", NoneEl), LAMBDA offerEls :
  TryAll([i \in 1..Len(offerEls) |-> __iata_offer_info(self, offerEls[i])],
         LAMBDA offers :
  Let(_iter(self, "SeatDefinition", NoneEl), LAMBDA defEls :
  TryAll([i \in 1..Len(defEls) |-> IataSeatDefinition(self, defEls[i])],
         LAMBDA defs :
    Ok([cls |-> self.cls, root |-> self.root, ns |-> self.ns,
        flights |-> Catalog(flightEls, "SegmentKey", flights),
        offers |-> Catalog(offerEls, "OfferItemID", offers),
        seat_definitions |-> Catalog(defEls, "SeatDefinitionID", defs)])))))))

\* line 181: { flight.get('flight_id'): flight for flight in self.flights.values() }
ByFlightId(values) ==
  DictOf([i \in 1..Len(values) |-> [k |-> values[i].flight_id, v |-> values[i]]])

\* IataParser.parse()
IataParser_parse(self) ==
  Try(IataCatalogs([self EXCEPT !.ns = _get_namespace(self.root)]), LAMBDA me :
  Try(IataSeatMaps(me, me.flights, _iter(me, "SeatMap", NoneEl)), LAMBDA flights :
    Ok(ByFlightId(DictValues(flights)))))

----------------------------------------------------------------------------
(* The documents the model runs on.  Every family varies one part of a     *)
(* document of one dialect around a well-formed one.                       *)

SoapEnvNs == "{http://schemas.xmlsoap.org/soap/envelope/}"
OtaNs == "{http://www.opentravel.org/OTA/2003/05/common/}"
IataNs == "{http://www.iata.org/IATA/EDIST/2017.2}"

MaxFeatures == 2   \* Features elements of a SOAP seat
MaxTaxes == 2      \* Tax elements of a SOAP fee
MaxSeats == 2      \* seats of a row
MaxRows == 2       \* rows of a SOAP flight
MaxRefs == 2       \* SeatDefinitionRef elements of an IATA seat
MaxSeatMaps == 2   \* SeatMap sections of an IATA document

\* the sequences over S of length at most n
SeqsUpTo(S, n) == UNION { [1..k -> S] : k \in 0..n }

\* an element without text
Node(ns, tag, attrib, children) == El(ns \o tag, attrib, None, children)

\* an element holding text only
Leaf(ns, tag, text) == El(ns \o tag, NoAttrib, text, <<>>)

(* SOAP *)

FeatureEls ==
  { El(OtaNs \o "Features", [extension |-> "Window"], None, <<>>),
    El(OtaNs \o "Features", NoAttrib, "Aisle", <<>>),
    El(OtaNs \o "Features", [extension |-> ""], "Exit", <<>>) }

SoapTax(amount) == Node(OtaNs, "Tax", [Amount |-> amount], <<>>)

SoapFee(attrib, taxAmounts) ==
  Node(OtaNs, "Fee", attrib, [i \in 1..Len(taxAmounts) |-> SoapTax(taxAmounts[i])])

SoapService(fees) == Node(OtaNs, "Service", NoAttrib, fees)

\* summaries, features, services: the child elements of the seat, in this order
SoapSeat(summaries, features, services) ==
  Node(OtaNs, "SeatInfo", NoAttrib, summaries \o features \o services)

SoapSummary(attrib) == Node(OtaNs, "Summary", attrib, <<>>)

SoapRow(attrib, seats) == Node(OtaNs, "RowInfo", attrib, seats)

SoapFlight(flightAttrib, rows) ==
  Node(OtaNs, "SeatMapResponse", NoAttrib,
       << Node(OtaNs, "FlightSegmentInfo", flightAttrib, <<>>),
          Node(OtaNs, "SeatMapDetails", NoAttrib,
               << Node(OtaNs, "CabinClass", NoAttrib, rows) >>) >>)

SoapDoc(responses) ==
  Node(SoapEnvNs, "Envelope", NoAttrib,
       << Node(SoapEnvNs, "Body", NoAttrib,
               << Node(OtaNs, "OTA_AirSeatMapRS", NoAttrib,
                       << Node(OtaNs, "SeatMapResponses", NoAttrib, responses) >>) >>) >>)

FullFee == [Amount |-> "1500", DecimalPlaces |-> "2", CurrencyCode |-> "USD"]
FullFlight == [FlightNumber |-> "AB123", DepartureDateTime |-> "2024-05-01T14:32:00"]
FullRow == [CabinType |-> "Y", RowNumber |-> "12"]
FullSummary == [SeatNumber |-> "12A", AvailableInd |-> "true"]

FlightAttribs ==
  { FullFlight,
    [DepartureDateTime |-> "2024-05-01T14:32:00"],
    [FlightNumber |-> "AB123"],
    [FlightNumber |-> "AB123", DepartureDateTime |-> "2024-05-01 14:32"] }

RowAttribs == { FullRow, [RowNumber |-> "12"], [CabinType |-> "Y"] }

SummaryVariants ==
  { <<>>,
    << SoapSummary(FullSummary) >>,
    << SoapSummary([AvailableInd |-> "true"]) >>,
    << SoapSummary([SeatNumber |-> "12A"]) >>,
    << SoapSummary([SeatNumber |-> "12A", AvailableInd |-> "false"]) >>,
    << SoapSummary([SeatNumber |-> "12A", AvailableInd |-> "True"]) >> }

ServiceVariants ==
  { <<>>,
    << SoapService(<<>>) >>,
    << SoapService(<< SoapFee(FullFee, << "150" >>) >>) >>,
    << SoapService(<< SoapFee([DecimalPlaces |-> "2", CurrencyCode |-> "USD"], <<>>) >>) >>,
    << SoapService(<< SoapFee([Amount |-> "1500", CurrencyCode |-> "USD"], <<>>) >>) >>,
    << SoapService(<< SoapFee([Amount |-> "1500", DecimalPlaces |-> "2"], <<>>) >>) >>,
    << SoapService(<< SoapFee([Amount |-> "0", DecimalPlaces |-> "2",
                               CurrencyCode |-> "USD"], << "150" >>) >>) >>,
    << SoapService(<< SoapFee([Amount |-> "1500", DecimalPlaces |-> "0",
                               CurrencyCode |-> "JPY"], << "150" >>) >>) >> }

\* one flight, one row, one seat: which attributes and sub-elements are present
SoapPresenceDocs ==
  { SoapDoc(<< SoapFlight(fa, << SoapRow(ra, << SoapSeat(su, <<>>, sv) >>) >>) >>) :
      fa \in FlightAttribs, ra \in RowAttribs,
      su \in SummaryVariants, sv \in ServiceVariants }

AvailableInds == { [SeatNumber |-> "12A"] } \cup
  { [SeatNumber |-> "12A", AvailableInd |-> a] : a \in {"true", "false", "TRUE", ""} }

\* one seat: its availability attribute, its Features elements and its Tax elements
SoapSeatDocs ==
  { SoapDoc(<< SoapFlight(FullFlight, << SoapRow(FullRow,
       << SoapSeat(<< SoapSummary(su) >>, fs_,
                   << SoapService(<< SoapFee(FullFee, tx) >>) >>) >>) >>) >>) :
      su \in AvailableInds,
      fs_ \in SeqsUpTo(FeatureEls, MaxFeatures),
      tx \in SeqsUpTo({"150", "25"}, MaxTaxes) }

SoapSeatAt(id, ind, taxAmounts) ==
  SoapSeat(<< SoapSummary([SeatNumber |-> id, AvailableInd |-> ind]) >>, <<>>,
           << SoapService(<< SoapFee(FullFee, taxAmounts) >>) >>)

CoreSeats ==
  { [ind |-> "true", tx |-> << "150" >>],
    [ind |-> "true", tx |-> <<>>],
    [ind |-> "false", tx |-> << "25" >>] }

SeatIds == << "12A", "12B", "12C", "12D" >>

\* one row of several seats
SoapSeatsDocs ==
  { SoapDoc(<< SoapFlight(FullFlight, << SoapRow(FullRow,
       [i \in 1..Len(seats) |->
          SoapSeatAt(SeatIds[i], seats[i].ind, seats[i].tx)]) >>) >>) :
      seats \in SeqsUpTo(CoreSeats, MaxSeats) }

RowKinds == { <<>> } \cup { << seat >> : seat \in CoreSeats }

\* one flight of several rows, of one seat or none
SoapRowsDocs ==
  { SoapDoc(<< SoapFlight(FullFlight,
       [r \in 1..Len(rows) |->
          SoapRow([CabinType |-> "Y", RowNumber |-> NatToStr(11 + r)],
                  [i \in 1..Len(rows[r]) |->
                     SoapSeatAt(SeatIds[r], rows[r][i].ind, rows[r][i].tx)])]) >>) :
      rows \in SeqsUpTo(RowKinds, MaxRows) }

\* two flights, with equal or different flight numbers, and no flight at all
SoapFlightsDocs ==
  { SoapDoc(<<>>), El(SoapEnvNs \o "Envelope", NoAttrib, None, <<>>) } \cup
  { SoapDoc(<< SoapFlight(FullFlight,
                 << SoapRow(FullRow, << SoapSeatAt("12A", "true", << "150" >>) >>) >>),
               SoapFlight([FlightNumber |-> fn, DepartureDateTime |-> "2024-05-02T09:05:00"],
                 << SoapRow(FullRow, << SoapSeatAt("12B", "false", <<>>) >>) >>) >>) :
      fn \in {"AB123", "AB456"} }

SoapDocs ==
  SoapPresenceDocs \cup SoapSeatDocs \cup SoapSeatsDocs \cup SoapRowsDocs
    \cup SoapFlightsDocs

(* IATA *)

IataFlight(attrib, departure, carrier) ==
  Node(IataNs, "FlightSegment", attrib, departure \o carrier)

IataDeparture(date, time) ==
  Node(IataNs, "Departure", NoAttrib,
       << Leaf(IataNs, "Date", date), Leaf(IataNs, "Time", time) >>)

IataCarrier(number) ==
  Node(IataNs, "MarketingCarrier", NoAttrib, << Leaf(IataNs, "FlightNumber", number) >>)

IataFlightAt(key, number) ==
  IataFlight([SegmentKey |-> key],
             << IataDeparture("2024-01-01", "10:00:00") >>, << IataCarrier(number) >>)

IataOffer(id, code, amount) ==
  Node(IataNs, "ALaCarteOfferItem", [OfferItemID |-> id],
       << Node(IataNs, "UnitPriceDetail", NoAttrib,
               << Node(IataNs, "TotalAmount", NoAttrib,
                       << El(IataNs \o "SimpleCurrencyPrice", [Code |-> code],
                             amount, <<>>) >>) >>) >>)

IataDef(id, text) ==
  Node(IataNs, "SeatDefinition", [SeatDefinitionID |-> id],
       << Node(IataNs, "Description", NoAttrib, << Leaf(IataNs, "Text", text) >>) >>)

\* column: <<>> or << letter >>; refs: SeatDefinitionRef keys; offerRefs: <<>> or << id >>
IataSeat(column, refs, offerRefs) ==
  Node(IataNs, "Seat", NoAttrib,
       [i \in 1..Len(column) |-> Leaf(IataNs, "Column", column[i])]
         \o [i \in 1..Len(refs) |-> Leaf(IataNs, "SeatDefinitionRef", refs[i])]
         \o [i \in 1..Len(offerRefs) |-> Leaf(IataNs, "OfferItemRefs", offerRefs[i])])

\* number: <<>> or << text >>
IataRow(number, seats) ==
  Node(IataNs, "Row", NoAttrib,
       [i \in 1..Len(number) |-> Leaf(IataNs, "Number", number[i])] \o seats)

\* segRef: <<>> or << key >>
IataSeatMap(segRef, rows) ==
  Node(IataNs, "SeatMap", NoAttrib,
       [i \in 1..Len(segRef) |-> Leaf(IataNs, "SegmentRef", segRef[i])]
         \o << Node(IataNs, "Cabin", NoAttrib, rows) >>)

IataDoc(offers, flights, defs, seatMaps) ==
  Node(IataNs, "SeatAvailabilityRS", NoAttrib,
       << Node(IataNs, "ALaCarteOffer", NoAttrib, offers),
          Node(IataNs, "DataLists", NoAttrib,
               << Node(IataNs, "FlightSegmentList", NoAttrib, flights),
                  Node(IataNs, "SeatDefinitionList", NoAttrib, defs) >>) >>
         \o seatMaps)

BaseOffers == << IataOffer("OF1", "EUR", "20.5"), IataOffer("OF2", "USD", "19.999") >>
BaseFlights == << IataFlightAt("SEG1", "CD456"), IataFlightAt("SEG2", "CD789") >>
BaseDefs == << IataDef("SD4", "AVAILABLE"), IataDef("SD1", "RESTRICTED") >>
BaseSeat == IataSeat(<< "A" >>, << "SD4" >>, << "OF1" >>)
BaseSeatMap == IataSeatMap(<< "SEG1" >>, << IataRow(<< "1" >>, << BaseSeat >>) >>)

RefKeys == { "SD4", "SD1", "SD9" }
OfferRefs == { <<>>, << "OF1" >>, << "OF2" >>, << "OF9" >> }

\* one seat: its seat-definition references and its offer reference
IataSeatDocs ==
  { IataDoc(BaseOffers, BaseFlights, BaseDefs,
      << IataSeatMap(<< "SEG1" >>,
           << IataRow(<< "1" >>, << IataSeat(<< "A" >>, refs, offer) >>) >>) >>) :
      refs \in SeqsUpTo(RefKeys, MaxRefs), offer \in OfferRefs }

CoreIataSeats ==
  { [refs |-> << "SD4" >>, offer |-> << "OF1" >>],
    [refs |-> << "SD1" >>, offer |-> << "OF1" >>],
    [refs |-> << "SD1", "SD4" >>, offer |-> <<>>] }

\* one row of several seats
IataSeatsDocs ==
  { IataDoc(BaseOffers, BaseFlights, BaseDefs,
      << IataSeatMap(<< "SEG1" >>,
           << IataRow(<< "1" >>,
                [i \in 1..Len(seats) |->
                   IataSeat(<< Char("ABCD", i) >>, seats[i].refs, seats[i].offer)]) >>) >>) :
      seats \in SeqsUpTo(CoreIataSeats, MaxSeats) }

SegRefs == { <<>>, << "SEG1" >>, << "SEG2" >>, << "SEG9" >> }

\* several seatmap sections; the j-th row of the i-th section has the number 10 i + j
IataSeatMapsDocs ==
  { IataDoc(BaseOffers, BaseFlights, BaseDefs,
      [i \in 1..Len(maps) |->
         IataSeatMap(maps[i].seg,
           [j \in 1..maps[i].rows |->
              IataRow(<< NatToStr(10 * i + j) >>, << BaseSeat >>)])]) :
      maps \in SeqsUpTo([seg : SegRefs, rows : 1..2], MaxSeatMaps) }

\* documents with one required part missing or unusable
IataPresenceDocs ==
  { IataDoc(BaseOffers, fl, BaseDefs, << BaseSeatMap >>) :
      fl \in { << IataFlight([SegmentKey |-> "SEG1"], <<>>, << IataCarrier("CD456") >>) >>,
               << IataFlight([SegmentKey |-> "SEG1"],
                             << IataDeparture("2024-01-01", None) >>,
                             << IataCarrier("CD456") >>) >>,
               << IataFlight([SegmentKey |-> "SEG1"],
                             << IataDeparture("2024-01-01", "10:00:00") >>, <<>>) >>,
               << IataFlight(NoAttrib, << IataDeparture("2024-01-01", "10:00:00") >>,
                             << IataCarrier("CD456") >>) >>,
               << IataFlightAt("SEG1", "CD456"), IataFlightAt("SEG2", "CD456") >>,
               << IataFlightAt("SEG1", "CD456"), IataFlightAt("SEG1", "CD789") >> } }
  \cup
  { IataDoc(of, BaseFlights, BaseDefs, << BaseSeatMap >>) :
      of \in { <<>>,
               << Node(IataNs, "ALaCarteOfferItem", [OfferItemID |-> "OF1"], <<>>) >>,
               << IataOffer("OF1", "EUR", "abc") >>,
               << IataOffer("OF1", "EUR", "0") >>,
               << El(IataNs \o "ALaCarteOfferItem", NoAttrib, None,
                     IataOffer("OF1", "EUR", "20.5").children) >> } }
  \cup
  { IataDoc(BaseOffers, BaseFlights, df, << BaseSeatMap >>) :
      df \in { <<>>,
               << Node(IataNs, "SeatDefinition", [SeatDefinitionID |-> "SD4"], <<>>) >> } }
  \cup
  { IataDoc(BaseOffers, BaseFlights, BaseDefs, << IataSeatMap(<< "SEG1" >>, << row >>) >>) :
      row \in { IataRow(<<>>, << BaseSeat >>),
                IataRow(<< "1" >>, <<>>),
                IataRow(<< None >>, << BaseSeat >>),
                IataRow(<< "1" >>, << IataSeat(<<>>, << "SD4" >>, << "OF1" >>) >>) } }

IataDocs == IataSeatDocs \cup IataSeatsDocs \cup IataSeatMapsDocs \cup IataPresenceDocs

(* root tags *)

RootTags ==
  { "{http://www.iata.org/xmlsoap}Envelope",
    "{http://xmlsoap.org/iata}SeatAvailabilityRS",
    "{http://example.org/seatmap}SeatMap",
    "{HTTP://WWW.IATA.ORG/XMLSOAP}Envelope",
    "xmlsoapEnvelope",
    "iataSeatAvailabilityRS",
    "xmlsoa-iat",
    "Envelope" }

BaseSoapDoc ==
  SoapDoc(<< SoapFlight(FullFlight,
               << SoapRow(FullRow, << SoapSeatAt("12A", "true", << "150" >>) >>) >>) >>)

BaseIataDoc == IataDoc(BaseOffers, BaseFlights, BaseDefs, << BaseSeatMap >>)

\* the two well-formed documents under other root tags
RootTagDocs == { [doc EXCEPT !.tag = t] : doc \in {BaseSoapDoc, BaseIataDoc}, t \in RootTags }

Docs == SoapDocs \cup IataDocs \cup RootTagDocs

----------------------------------------------------------------------------
(* The __main__ block, lines 250-277 *)

Paths == { "seatmap1.xml", "data/seatmap.v2.xml", "seatmap" }

Missing == [kind |-> "missing", root |-> NoneEl]
Malformed == [kind |-> "malformed", root |-> NoneEl]
Directory == [kind |-> "directory", root |-> NoneEl]
File(doc) == [kind |-> "xml", root |-> doc]

MainInputs ==
  { [argv |-> <<>>, fs |-> Missing] }
    \cup { [argv |-> << p >>, fs |-> f] :
             p \in Paths, f \in {Missing, Malformed, Directory,
                                  File(BaseSoapDoc), File(BaseIataDoc)} }
    \cup { [argv |-> << "seatmap1.xml" >>, fs |-> File(doc)] : doc \in Docs }

\* the main block does not run: the module was imported
IdleMain ==
  /\ argv = <<>> /\ fs = Missing /\ pc = "imported" /\ tree = Unbound
  /\ parser = NoParser
  /\ data = <<>> /\ stdout = <<>> /\ exitStatus = <<>> /\ outFile = <<>>

IdleLib == insts = <<>> /\ results = <<>>

IdlePrice == fpIn = <<>> /\ fpOut = <<>>

Init ==
  /\ \E i \in MainInputs : argv = i.argv /\ fs = i.fs
  /\ pc = "argv"
  /\ tree = Unbound
  /\ root = Unbound
  /\ parser = NoParser
  /\ data = <<>>
  /\ stdout = <<>>
  /\ exitStatus = <<>>
  /\ outFile = <<>>
  /\ IdleLib
  /\ IdlePrice

ErrorPrefix == "\\033[91mERROR:\\033[0m "

ExitDefault == 0

\* abort(msg): print the error line, then exit() with no argument
abort(msg) ==
  /\ stdout' = Append(stdout, ErrorPrefix \o msg)
  /\ exitStatus' = << ExitDefault >>
  /\ pc' = "exited"

\* an exception no handler catches: the interpreter ends with status 1
Uncaught ==
  /\ exitStatus' = << 1 >>
  /\ pc' = "raised"
  /\ UNCHANGED stdout

\* lines 251-255: path = sys.argv[1]
ReadArgv ==
  /\ pc = "argv"
  /\ IF Len(argv) = 0
     THEN abort("Must pass a file path")
     ELSE pc' = "parse_xml" /\ UNCHANGED <<stdout, exitStatus>>
  /\ UNCHANGED <<argv, fs, tree, root, parser, data, outFile, libVars, fpVars>>

\* lines 257-262: tree = ET.parse(path)
ParseXml ==
  /\ pc = "parse_xml"
  /\ CASE fs.kind = "missing" -> abort("File not found") /\ UNCHANGED tree
       [] fs.kind = "malformed" -> abort("Invalid file format") /\ UNCHANGED tree
       [] fs.kind = "directory" -> Uncaught /\ UNCHANGED tree
       [] fs.kind = "xml" ->
            tree' = fs.root /\ pc' = "getroot" /\ UNCHANGED <<stdout, exitStatus>>
  /\ UNCHANGED <<argv, fs, root, parser, data, outFile, libVars, fpVars>>

\* line 264: root = tree.getroot()
GetRoot ==
  /\ pc = "getroot"
  /\ root' = tree
  /\ pc' = "dispatch"
  /\ UNCHANGED <<argv, fs, tree, parser, data, stdout, exitStatus, outFile,
                 libVars, fpVars>>

\* lines 266-271 with the two tests in the other order
DialectIataFirst(tag) ==
  IF Contains(tag, "iata") THEN "IataParser"
  ELSE IF Contains(tag, "xmlsoap") THEN "SoapParser"
  ELSE None

\* lines 266-271: the class the root tag selects, None when it selects neither
Dialect(tag) ==
  IF Contains(tag, "xmlsoap") THEN "SoapParser"
  ELSE IF Contains(tag, "iata") THEN "IataParser"
  ELSE None

\* lines 266-271: parser = SoapParser(root) / IataParser(root) / abort
Dispatch ==
  /\ pc = "dispatch"
  /\ IF Dialect(root.tag) = None
     THEN abort("XML format not supported") /\ UNCHANGED parser
     ELSE /\ parser' = ParserXML_init(Dialect(root.tag), root)
          /\ pc' = "parse"
          /\ UNCHANGED <<stdout, exitStatus>>
  /\ UNCHANGED <<argv, fs, tree, root, data, outFile, libVars, fpVars>>

\* self.parse(), groot being the value of the module-level name root
Parse(self, groot) ==
  IF self.cls = "SoapParser" THEN SoapParser_parse(self, groot)
  ELSE IataParser_parse(self)

\* the instance once parse() has run: line 100 or line 167 has stored the namespace
AfterParse(self, groot) ==
  [self EXCEPT !.ns = IF self.cls = "SoapParser" THEN SoapNs(self, groot)
                      ELSE _get_namespace(self.root)]

\* line 273: data = parser.parse()
RunParse ==
  /\ pc = "parse"
  /\ parser' = AfterParse(parser, root)
  /\ \E out \in { Parse(parser, root) } :
       IF out.exc # ""
       THEN Uncaught /\ UNCHANGED data
       ELSE data' = << out.val >> /\ pc' = "open" /\ UNCHANGED <<stdout, exitStatus>>
  /\ UNCHANGED <<argv, fs, tree, root, outFile, libVars, fpVars>>

\* line 274: path.split('.')[0] + '_parsed.json'
OutputFilename(path) ==
  (IF Positions(path, ".") = {} THEN path
   ELSE SubSeq(path, 1, Min(Positions(path, ".")) - 1)) \o "_parsed.json"

\* lines 274-276: open(output_filename, 'w') creates the file, empty
OpenOutput ==
  /\ pc = "open"
  /\ outFile' = << [name |-> OutputFilename(argv[1]), content |-> <<>>] >>
  /\ pc' = "dump"
  /\ UNCHANGED <<argv, fs, tree, root, parser, data, stdout, exitStatus,
                 libVars, fpVars>>

\* line 277: json.dump(data, f); the with block closes the file and the script ends
DumpJson ==
  /\ pc = "dump"
  /\ outFile' = << [outFile[1] EXCEPT !.content = data] >>
  /\ exitStatus' = << 0 >>
  /\ pc' = "done"
  /\ UNCHANGED <<argv, fs, tree, root, parser, data, stdout, libVars, fpVars>>

Next == ReadArgv \/ ParseXml \/ GetRoot \/ Dispatch \/ RunParse \/ OpenOutput \/ DumpJson

Spec == Init /\ [][Next]_vars

----------------------------------------------------------------------------
(* Library use: a host process constructs parsers itself and calls parse() *)

NumInsts == 2

LibDocs ==
  { BaseSoapDoc,
    SoapDoc(<< SoapFlight([FlightNumber |-> "ZZ900",
                           DepartureDateTime |-> "2024-06-30T23:59:00"],
                 << SoapRow(FullRow, << SoapSeatAt("12C", "false", <<>>) >>) >>) >>),
    BaseIataDoc,
    IataDoc(BaseOffers, BaseFlights, BaseDefs,
            << IataSeatMap(<< "SEG2" >>,
                 << IataRow(<< "7" >>, << IataSeat(<< "F" >>, << "SD1" >>, <<>>) >>) >>) >>) }

\* root is bound only by line 264: it is unbound in a process that imported the
\* module, and holds the script's document in one that ran the script before
LibInit ==
  /\ IdleMain
  /\ root \in {Unbound} \cup LibDocs
  /\ insts = [i \in 1..NumInsts |-> NoParser]
  /\ results = [i \in 1..NumInsts |-> <<>>]
  /\ IdlePrice

\* SoapParser(doc) or IataParser(doc), the class that suits the document
Construct(i, doc) ==
  /\ insts[i] = NoParser
  /\ insts' = [insts EXCEPT ![i] = ParserXML_init(Dialect(doc.tag), doc)]
  /\ UNCHANGED <<results, mainVars, fpVars>>

\* insts[i].parse()
LibParse(i) ==
  /\ insts[i] # NoParser
  /\ results[i] = <<>>
  /\ results' = [results EXCEPT ![i] = << Parse(insts[i], root) >>]
  /\ insts' = [insts EXCEPT ![i] = AfterParse(insts[i], root)]
  /\ UNCHANGED <<mainVars, fpVars>>

LibNext ==
  \/ \E i \in 1..NumInsts, doc \in LibDocs : Construct(i, doc)
  \/ \E i \in 1..NumInsts : LibParse(i)

SpecLib == LibInit /\ [][LibNext]_vars

----------------------------------------------------------------------------
(* Calls of _format_price *)

MaxScale == 2       \* decimal places of an amount
MaxPrecision == 3   \* the precision argument

AmountUnits == { 0, 1, 5, 150, 1500, 19999 }
Currencies == { "", "USD", "EUR ", " JPY", " " }

\* the amount lies half-way between two values of that precision: how its float
\* is rounded then depends on the binary value, which the decimals do not model
IsTie(a, precision) ==
  a.d > precision /\ 2 * (a.n % Pow10(a.d - precision)) = Pow10(a.d - precision)

PriceInputs ==
  { in \in [amount : { Dec(n, d) : n \in AmountUnits, d \in 0..MaxScale },
            currency : Currencies, precision : 0..MaxPrecision] :
      ~IsTie(in.amount, in.precision) }

PriceInit ==
  /\ IdleMain
  /\ root = Unbound
  /\ IdleLib
  /\ fpIn \in PriceInputs
  /\ fpOut = <<>>

\* self._format_price(amount, currency, precision)
FormatPriceCall ==
  /\ fpOut = <<>>
  /\ fpOut' = << [args |-> fpIn,
                  ret |-> _format_price(fpIn.amount, fpIn.currency, fpIn.precision)] >>
  /\ UNCHANGED <<fpIn, mainVars, libVars>>

\* self._format_price(amount): currency and precision take their defaults
FormatPriceDefaults ==
  /\ fpOut = <<>>
  /\ fpOut' = << [args |-> [fpIn EXCEPT !.currency = DefaultCurrency,
                                       !.precision = DefaultPrecision],
                  ret |-> _format_price(fpIn.amount, DefaultCurrency,
                                        DefaultPrecision)] >>
  /\ UNCHANGED <<fpIn, mainVars, libVars>>

PriceNext == FormatPriceCall \/ FormatPriceDefaults

SpecPrice == PriceInit /\ [][PriceNext]_vars

----------------------------------------------------------------------------
(* Reading a result mapping and the document it was made from *)

Parsed == Len(data) = 1

FlightRecords(result) == { result[i].v : i \in 1..Len(result) }

RowRecords(result) ==
  UNION { { f.rows[j] : j \in 1..Len(f.rows) } : f \in FlightRecords(result) }

SeatRecords(result) ==
  UNION { { r.seats[j] : j \in 1..Len(r.seats) } : r \in RowRecords(result) }

SeatRecordsFor(id) == { s \in SeatRecords(data[1]) : s.seat_id = id }

Range(seq) == { seq[i] : i \in 1..Len(seq) }

TextsOf(els) == [i \in 1..Len(els) |-> els[i].text]

\* a finished parse of a document whose elements are in the namespace the parser
\* took from it
SoapRun == parser.cls = "SoapParser" /\ Parsed /\ parser.ns = OtaNs
IataRun == parser.cls = "IataParser" /\ Parsed /\ parser.ns = IataNs

SoapSeatEls == Range(ElementIter(root, OtaNs \o "SeatInfo"))
SoapSummaryOf(seat) == ElementFind(seat, OtaNs \o "Summary")
SoapUnavailableEls ==
  { e \in SoapSeatEls :
      SoapSummaryOf(e) # NoneEl /\ Get(SoapSummaryOf(e), "AvailableInd") # "true" }

\* the label of each Features element under the seat, in document order
FeatureLabels(seat) ==
  [i \in 1..Len(ElementIter(seat, OtaNs \o "Features")) |->
     IF Get(ElementIter(seat, OtaNs \o "Features")[i], "extension") \in {None, ""}
     THEN ElementIter(seat, OtaNs \o "Features")[i].text
     ELSE Get(ElementIter(seat, OtaNs \o "Features")[i], "extension")]

\* C5: in the SOAP dialect every seat whose AvailableInd is absent or is not
\* exactly "true" gets a record with available = false, price = taxes = "N/A",
\* whatever Fee and Tax elements it holds, and a type list with one entry per
\* Features element of the seat, in document order.
C5_SoapUnavailableSeat ==
  SoapRun =>
    \A e \in SoapUnavailableEls :
      \A s \in SeatRecordsFor(Get(SoapSummaryOf(e), "SeatNumber")) :
        /\ s.available = FALSE
        /\ s.price = "N/A"
        /\ s.taxes = "N/A"
        /\ s.type = FeatureLabels(e)

\* a parsed SOAP document with a seat whose AvailableInd is "TRUE", which holds
\* two Features elements and a Fee with a Tax
C5_Witness ==
  /\ SoapRun
  /\ \E e \in SoapUnavailableEls :
       /\ Get(SoapSummaryOf(e), "AvailableInd") = "TRUE"
       /\ Len(FeatureLabels(e)) = 2
       /\ FeatureLabels(e)[1] # FeatureLabels(e)[2]
       /\ ElementIter(e, OtaNs \o "Tax") # <<>>
       /\ SeatRecordsFor(Get(SoapSummaryOf(e), "SeatNumber")) # {}

IataRowEls == Range(ElementIter(root, IataNs \o "Row"))
IataSeatElsOf(row) == Range(ElementIter(row, IataNs \o "Seat"))
IataSeatId(row, seat) ==
  ElementFind(row, IataNs \o "Number").text \o ElementFind(seat, IataNs \o "Column").text
IataRefsOf(seat) == TextsOf(ElementIter(seat, IataNs \o "SeatDefinitionRef"))
NotSD4(key) == key # "SD4"

\* the description the document gives for a seat-definition key, None when it gives none
IataDescription(key) ==
  IF \E d \in Range(ElementIter(root, IataNs \o "SeatDefinition")) :
       Get(d, "SeatDefinitionID") = key
  THEN ElementFind(ElementFind(
         CHOOSE d \in Range(ElementIter(root, IataNs \o "SeatDefinition")) :
           Get(d, "SeatDefinitionID") = key,
         IataNs \o "Description"), IataNs \o "Text").text
  ELSE None

IataExpectedType(seat) ==
  [i \in 1..Len(SelectSeq(IataRefsOf(seat), NotSD4)) |->
     IataDescription(SelectSeq(IataRefsOf(seat), NotSD4)[i])]

\* C6: in the IATA dialect a seat is available iff one of its SeatDefinitionRef
\* values is "SD4"; its type list has one entry per other reference, in document
\* order (the catalog description, or None for an unknown key) and none for
\* "SD4"; its taxes are "N/A".
C6_IataSeat ==
  IataRun =>
    \A row \in IataRowEls : \A seat \in IataSeatElsOf(row) :
      \A s \in SeatRecordsFor(IataSeatId(row, seat)) :
        /\ s.available = ("SD4" \in Range(IataRefsOf(seat)))
        /\ s.type = IataExpectedType(seat)
        /\ s.taxes = "N/A"

\* a parsed IATA document with a seat that refers to a key the catalog does not
\* hold and then to "SD4", and the record made from it
C6_Witness ==
  /\ IataRun
  /\ \E row \in IataRowEls : \E seat \in IataSeatElsOf(row) :
       /\ IataRefsOf(seat) = << "SD9", "SD4" >>
       /\ \E s \in SeatRecordsFor(IataSeatId(row, seat)) :
            s.available /\ s.type = << None >>

HasSoapMarker == Contains(root.tag, "xmlsoap")
HasIataMarker == Contains(root.tag, "iata")
RootBound == root # Unbound
Dispatched == pc \in {"parse", "open", "dump", "done"} \/ (pc = "raised" /\ RootBound)

\* C8: the root tag alone selects the dialect: "xmlsoap" in it selects the SOAP
\* extractor even if "iata" is in it too, otherwise "iata" selects the IATA
\* extractor, otherwise the run aborts as unsupported, and then no extractor
\* was constructed, no result was built and no output file was opened.
C8_DialectSelection ==
  /\ Dispatched =>
       /\ parser.root = root
       /\ \/ HasSoapMarker /\ parser.cls = "SoapParser"
          \/ ~HasSoapMarker /\ HasIataMarker /\ parser.cls = "IataParser"
  /\ (RootBound /\ ~HasSoapMarker /\ ~HasIataMarker) =>
       /\ pc \in {"dispatch", "exited"}
       /\ parser = NoParser
       /\ data = <<>>
       /\ outFile = <<>>
  /\ (RootBound /\ pc = "exited") =>
       /\ ~HasSoapMarker /\ ~HasIataMarker
       /\ stdout = << ErrorPrefix \o "XML format not supported" >>

\* a run aborted as unsupported: the root tag holds neither marker in lower case
C8_Witness ==
  /\ pc = "exited"
  /\ RootBound
  /\ root.tag = "{HTTP://WWW.IATA.ORG/XMLSOAP}Envelope"
  /\ parser = NoParser

\* C7: a failed run of the command line (no path argument, file not found, file
\* not well-formed, unsupported root tag) ends with a non-zero exit status after
\* printing one error line, and writes no output file.
C7_FailedRunExitsNonZero ==
  pc = "exited" =>
    /\ Len(stdout) = 1
    /\ outFile = <<>>
    /\ exitStatus # << 0 >>

\* C4: a SOAP result mapping never holds a flight without flight_id, date or
\* time, a row without row_id or cabin_class, or a seat without seat_id: a
\* document that lacks one of them makes the parse fail as a whole.
C4_SoapNoNullField ==
  SoapRun =>
    /\ \A f \in FlightRecords(data[1]) :
         f.flight_id # None /\ f.date # None /\ f.time # None
    /\ \A r \in RowRecords(data[1]) : r.row_id # None /\ r.cabin_class # None
    /\ \A t \in SeatRecords(data[1]) : t.seat_id # None

RECURSIVE SumNat(_)
SumNat(ns) == IF Len(ns) = 0 THEN 0 ELSE Head(ns) + SumNat(Tail(ns))

\* n / 10^p with p digits after the point, then the currency; "N/A" for zero
Money(n, p, c) ==
  IF n = 0 THEN "N/A"
  ELSE NatToStr(n \div Pow10(p))
         \o (IF p > 0 THEN "." \o ZeroPad(NatToStr(n % Pow10(p)), p) ELSE "")
         \o " " \o c

SoapFeeOf(seat) ==
  ElementFind(ElementFind(seat, OtaNs \o "Service"), OtaNs \o "Fee")

SoapOwnTaxes(seat) ==
  [i \in 1..Len(ElementIter(SoapFeeOf(seat), OtaNs \o "Tax")) |->
     StrToNat(Get(ElementIter(SoapFeeOf(seat), OtaNs \o "Tax")[i], "Amount"))]

SoapAvailableEls ==
  { e \in SoapSeatEls :
      /\ SoapSummaryOf(e) # NoneEl
      /\ Get(SoapSummaryOf(e), "AvailableInd") = "true"
      /\ Get(SoapFeeOf(e), "CurrencyCode") # None }

\* the price part of C9
SoapPriceFromFee ==
  SoapRun =>
    \A e \in SoapAvailableEls :
      \A s \in SeatRecordsFor(Get(SoapSummaryOf(e), "SeatNumber")) :
        s.price = Money(StrToNat(Get(SoapFeeOf(e), "Amount")),
                        StrToNat(Get(SoapFeeOf(e), "DecimalPlaces")),
                        Get(SoapFeeOf(e), "CurrencyCode"))

\* C9: in the SOAP dialect the price of an available seat is its Fee Amount
\* over 10^DecimalPlaces with DecimalPlaces digits and the CurrencyCode, and its
\* taxes are the sum of the Tax elements under its own Fee, rendered alike:
\* "N/A" when its own Fee has no Tax element, whatever Tax elements other seats
\* of the document have.
C9_SoapPriceAndOwnTaxes ==
  /\ SoapPriceFromFee
  /\ SoapRun =>
       \A e \in SoapAvailableEls :
         \A s \in SeatRecordsFor(Get(SoapSummaryOf(e), "SeatNumber")) :
           s.taxes = Money(SumNat(SoapOwnTaxes(e)),
                           StrToNat(Get(SoapFeeOf(e), "DecimalPlaces")),
                           Get(SoapFeeOf(e), "CurrencyCode"))

IataFlightEls == ElementIter(root, IataNs \o "FlightSegment")
IataSeatMapEls == ElementIter(root, IataNs \o "SeatMap")
IataFlightNumber(flight) ==
  ElementFind(ElementFind(flight, IataNs \o "MarketingCarrier"),
              IataNs \o "FlightNumber").text

\* the numbers of the Row elements inside the seatmap sections that refer to the
\* segment key, in document order
IataRowsOfSegment(key) ==
  Flatten([i \in 1..Len(IataSeatMapEls) |->
    IF ElementFind(IataSeatMapEls[i], IataNs \o "SegmentRef").text = key
    THEN [j \in 1..Len(ElementIter(IataSeatMapEls[i], IataNs \o "Row")) |->
            ElementFind(ElementIter(IataSeatMapEls[i], IataNs \o "Row")[j],
                        IataNs \o "Number").text]
    ELSE <<>>])

IataDistinctFlights ==
  /\ Cardinality({ Get(f, "SegmentKey") : f \in Range(IataFlightEls) }) = Len(IataFlightEls)
  /\ Cardinality({ IataFlightNumber(f) : f \in Range(IataFlightEls) }) = Len(IataFlightEls)

\* C1: in the IATA dialect every Row is appended to the rows of exactly one
\* flight, the one whose SegmentKey is the SegmentRef of the seatmap section
\* holding the Row: the rows of a flight are the rows of its own sections, once.
C1_IataRowsOfOwnSeatMap ==
  (IataRun /\ IataSeatMapEls # <<>> /\ IataDistinctFlights) =>
    \A f \in Range(IataFlightEls) :
      [i \in 1..Len(DictAt(data[1], IataFlightNumber(f)).rows) |->
         DictAt(data[1], IataFlightNumber(f)).rows[i].row_id]
        = IataRowsOfSegment(Get(f, "SegmentKey"))

\* C2: in the IATA dialect a document that is well-formed but for the offer
\* references of its seats is parsed to the end, and an available seat whose
\* OfferItemRefs is absent or is no key of the offers catalog has price "N/A".
C2_IataUnresolvedOffer ==
  (parser.cls = "IataParser" /\ root \in IataSeatDocs \cup IataSeatsDocs) =>
    /\ pc # "raised"
    /\ Parsed =>
         \A row \in IataRowEls : \A seat \in IataSeatElsOf(row) :
           ( /\ "SD4" \in Range(IataRefsOf(seat))
             /\ \/ ElementFind(seat, IataNs \o "OfferItemRefs") = NoneEl
                \/ ElementFind(seat, IataNs \o "OfferItemRefs").text
                     \notin { Get(o, "OfferItemID") :
                                o \in Range(ElementIter(root, IataNs \o "ALaCarteOfferItem")) } )
           => \A s \in SeatRecordsFor(IataSeatId(row, seat)) : s.price = "N/A"

\* C10: a parse call reads only the document its parser was constructed with:
\* whatever other parsers the process holds and whatever the module-level name
\* root is bound to, parse() returns the result for the parser's own document.
C10_ParsesOwnDocument ==
  \A i \in DOMAIN results :
    results[i] # <<>> =>
      results[i][1] = Parse(ParserXML_init(insts[i].cls, insts[i].root), insts[i].root)

\* the part of the rendered price before its first space
Numeral(out) ==
  IF Positions(out, " ") = {} THEN out ELSE SubSeq(out, 1, Min(Positions(out, " ")) - 1)

\* the numeral without its decimal point
NumeralDigits(num, precision) ==
  IF precision = 0 THEN num
  ELSE SubSeq(num, 1, Len(num) - precision - 1)
         \o SubSeq(num, Len(num) - precision + 1, Len(num))

\* digits, and for precision > 0 a point followed by exactly precision digits
NumeralHasPrecision(num, precision) ==
  /\ AllDigits(NumeralDigits(num, precision))
  /\ precision > 0 =>
       /\ Len(num) >= precision + 2
       /\ Char(num, Len(num) - precision) = "."

\* the numeral is the amount n / 10^d rounded to the precision
NumeralIsAmount(num, a, precision) ==
  2 * (StrToNat(NumeralDigits(num, precision)) * Pow10(a.d) - a.n * Pow10(precision))
    \in (0 - Pow10(a.d))..Pow10(a.d)

\* C3: _format_price returns "N/A" for the amount 0 whatever the currency and
\* precision; for an amount > 0 it returns the amount with exactly precision
\* digits after the decimal point, one space and the currency, and the string
\* has no leading or trailing whitespace.
C3_FormatPrice ==
  \A i \in DOMAIN fpOut :
    IF fpOut[i].args.amount.n = 0 THEN fpOut[i].ret = "N/A"
    ELSE /\ Len(fpOut[i].ret) > 0
         /\ Char(fpOut[i].ret, 1) \notin Whitespace
         /\ Char(fpOut[i].ret, Len(fpOut[i].ret)) \notin Whitespace
         /\ NumeralHasPrecision(Numeral(fpOut[i].ret), fpOut[i].args.precision)
         /\ NumeralIsAmount(Numeral(fpOut[i].ret), fpOut[i].args.amount,
                            fpOut[i].args.precision)
         /\ fpOut[i].ret =
              RStrip(Numeral(fpOut[i].ret) \o " " \o fpOut[i].args.currency)

\* 199.99 rendered with one digit and no currency: rounded up, nothing after it
C3_Witness ==
  /\ fpOut # <<>>
  /\ fpOut[1].args = [amount |-> Dec(19999, 2), currency |-> "", precision |-> 1]
  /\ fpOut[1].ret = "200.0"

====
